---- MODULE Spec2Model ----
(***************************************************************************)
(* A model of the Inventory REST service (service/models.py and            *)
(* service/routes.py): the Inventory table, the record mapper              *)
(* (serialize / deserialize), and the request handlers of                  *)
(* InventoryResource, InventoryCollection and RestockResource.             *)
(*                                                                         *)
(* JSON / Python values are tagged records, so that a value of the wrong   *)
(* type (a string where an integer is expected, null, a payload that is    *)
(* not a mapping) is a value of the model.  Rows of the table carry typed  *)
(* columns, as the schema declares them.                                   *)
(***************************************************************************)
EXTENDS Integers, Sequences, FiniteSets, TLC

VARIABLES
    table,      \* the rows of the inventory table (committed state)
    nextId,     \* the next value of the primary-key sequence
    dbUp,       \* FALSE while db.session.commit() raises
    resp,       \* the last request served and the response to it
    session,    \* instances with uncommitted changes the session still
                \* holds once the last request is over
    workers,    \* the RestockResource.put calls in flight (concurrent runs)
    ledger      \* history: per id, creation quantity plus the deltas of
                \* the restocks that answered 200

vars == <<table, nextId, dbUp, resp, session, workers, ledger>>

----------------------------------------------------------------------------
(* Bounds of the model *)

MaxId == 2          \* ids the sequence hands out: 1..MaxId
MaxQty == 1         \* largest quantity a request or a restock produces

----------------------------------------------------------------------------
(* HTTP status codes (service.common.status) *)

HTTP_200_OK == 200
HTTP_201_CREATED == 201
HTTP_204_NO_CONTENT == 204
HTTP_400_BAD_REQUEST == 400
HTTP_404_NOT_FOUND == 404
HTTP_415_UNSUPPORTED_MEDIA_TYPE == 415
HTTP_500_INTERNAL_SERVER_ERROR == 500

----------------------------------------------------------------------------
(* Python / JSON values *)

None == [type |-> "null"]
JInt(n) == [type |-> "int", int |-> n]
JStr(s) == [type |-> "str", str |-> s]
JObj(m) == [type |-> "obj", obj |-> m]
JBool(b) == [type |-> "bool", bool |-> b]
JFloat(whole, tenths) == [type |-> "float", whole |-> whole, tenths |-> tenths]
Member(enum, name) == [type |-> enum, name |-> name]

\* class Condition(Enum): member name -> value
Condition == [NEW |-> "NEW", OPENBOX |-> "OPENBOX", USED |-> "USED"]

\* class StockLevel(Enum): member name -> value
StockLevel ==
    [IN_STOCK |-> "IN_STOCK", LOW_STOCK |-> "LOW_STOCK",
     OUT_OF_STOCK |-> "OUT_OF_STOCK"]

\* a lookup that falls back to some member for a value that is no member's
EnumLookup_defaulting(enumName, enum, v) ==
    IF v.type # "str" THEN None
    ELSE IF \E m \in DOMAIN enum : enum[m] = v.str
    THEN Member(enumName, CHOOSE m \in DOMAIN enum : enum[m] = v.str)
    ELSE Member(enumName, CHOOSE m \in DOMAIN enum : TRUE)

\* Condition(value) / StockLevel(value): lookup of a member by value;
\* None stands for the ValueError of a value that is no member's value.
EnumLookup(enumName, enum, v) ==
    IF v.type = "str" /\ \E m \in DOMAIN enum : enum[m] = v.str
    THEN Member(enumName, CHOOSE m \in DOMAIN enum : enum[m] = v.str)
    ELSE None

\* isinstance(v, int)
IsInstanceInt(v) == v.type \in {"int", "bool"}

\* a conversion that reads text that is no integer as zero
ParseInt_lenient(text) ==
    IF \E n \in (0 - MaxQty - 1)..(MaxQty + 1) : ToString(n) = text
    THEN JInt(CHOOSE n \in (0 - MaxQty - 1)..(MaxQty + 1) : ToString(n) = text)
    ELSE JInt(0)

\* int(text) of a path segment: the integer whose decimal text it is, or
\* None for the ValueError.
ParseInt(text) ==
    IF \E n \in (0 - MaxQty - 1)..(MaxQty + 1) : ToString(n) = text
    THEN JInt(CHOOSE n \in (0 - MaxQty - 1)..(MaxQty + 1) : ToString(n) = text)
    ELSE None

----------------------------------------------------------------------------
(* The Inventory record and its mapper *)

\* Inventory(): a freshly constructed instance, no attribute set
NewInventory ==
    [id |-> None, name |-> None, quantity |-> None,
     condition |-> None, stock_level |-> None]

DataValidationError(o, msg) ==
    [obj |-> o, error |-> "DataValidationError", msg |-> msg]

\* a message that does not say which key
MissingKey_unnamed(key) == "Invalid Inventory: missing data"

\* except KeyError as error: "Invalid Inventory: missing " + error.args[0]
MissingKey(key) == "Invalid Inventory: missing " \o key

\* Inventory.deserialize(data): the attributes are assigned one by one, so
\* a failure leaves the earlier assignments on the instance (field obj).
deserialize(self, data) ==
    IF data.type # "obj"
    THEN DataValidationError(self,
            "Invalid Inventory: body of request contained bad or no data")
    ELSE IF "name" \notin DOMAIN data.obj
    THEN DataValidationError(self, MissingKey("name"))
    ELSE LET o1 == [self EXCEPT !.name = data.obj.name] IN
    IF "quantity" \notin DOMAIN data.obj
    THEN DataValidationError(o1, MissingKey("quantity"))
    ELSE IF ~IsInstanceInt(data.obj.quantity)
    THEN DataValidationError(o1, "Invalid type for int [quantity]")
    ELSE LET o2 == [o1 EXCEPT !.quantity = data.obj.quantity] IN
    IF "condition" \notin DOMAIN data.obj
    THEN DataValidationError(o2, MissingKey("condition"))
    ELSE IF EnumLookup("Condition", Condition, data.obj.condition) = None
    THEN DataValidationError(o2, "Invalid value for Condition")
    ELSE LET o3 == [o2 EXCEPT !.condition =
                        EnumLookup("Condition", Condition, data.obj.condition)] IN
    IF "stock_level" \notin DOMAIN data.obj
    THEN DataValidationError(o3, MissingKey("stock_level"))
    ELSE IF EnumLookup("StockLevel", StockLevel, data.obj.stock_level) = None
    THEN DataValidationError(o3, "Invalid value for StockLevel")
    ELSE [obj |-> [o3 EXCEPT !.stock_level =
                        EnumLookup("StockLevel", StockLevel, data.obj.stock_level)],
          error |-> "", msg |-> ""]

\* a serialize that emits the quantity as text
serialize_stringly(self) ==
    IF self.condition = None \/ self.stock_level = None
    THEN None
    ELSE JObj([id |-> self.id,
               name |-> self.name,
               quantity |-> IF self.quantity.type = "int"
                            THEN JStr(ToString(self.quantity.int))
                            ELSE self.quantity,
               condition |-> JStr(Condition[self.condition.name]),
               stock_level |-> JStr(StockLevel[self.stock_level.name])])

\* Inventory.serialize(): .value of an unset enum attribute raises
\* AttributeError, which None stands for.
serialize(self) ==
    IF self.condition = None \/ self.stock_level = None
    THEN None
    ELSE JObj([id |-> self.id,
               name |-> self.name,
               quantity |-> self.quantity,
               condition |-> JStr(Condition[self.condition.name]),
               stock_level |-> JStr(StockLevel[self.stock_level.name])])

\* fields.String of inventory_model: str(value), None passes through
FormatString(v) ==
    IF v.type = "int" THEN JStr(ToString(v.int)) ELSE v

\* @api.marshal_with(inventory_model): id is declared fields.String
marshal(body) ==
    IF body.type # "obj" THEN body
    ELSE JObj([body.obj EXCEPT !.id = FormatString(body.obj.id)])

----------------------------------------------------------------------------
(* The table: rows with typed columns *)

\* the instance the session loads from a row
ObjOfRow(r) ==
    [id |-> JInt(r.id), name |-> JStr(r.name), quantity |-> JInt(r.quantity),
     condition |-> Member("Condition", r.condition),
     stock_level |-> Member("StockLevel", r.stock_level)]

\* a write that derives the stock level from the quantity
RowOfObj_bucketing(o, id) ==
    [id |-> id, name |-> o.name.str, quantity |-> o.quantity.int,
     condition |-> o.condition.name,
     stock_level |-> IF o.quantity.int = 0 THEN "OUT_OF_STOCK"
                     ELSE o.stock_level.name]

\* the row the session writes for an instance
RowOfObj(o, id) ==
    [id |-> id, name |-> o.name.str, quantity |-> o.quantity.int,
     condition |-> o.condition.name, stock_level |-> o.stock_level.name]

\* the columns are nullable=False and typed
Flushable(o) ==
    /\ o.name.type = "str"
    /\ o.quantity.type = "int"
    /\ o.condition.type = "Condition"
    /\ o.stock_level.type = "StockLevel"

Ids(t) == {r.id : r \in t}

\* Inventory.find(by_id): session.get with the path segment as the key
find(t, by_id) ==
    IF \E r \in t : ToString(r.id) = by_id
    THEN ObjOfRow(CHOOSE r \in t : ToString(r.id) = by_id)
    ELSE None

\* Inventory.all()
all(t) == {ObjOfRow(r) : r \in t}

\* a lookup by name that ignores letter case
find_by_name_ignoring_case(t, name) ==
    {ObjOfRow(r) : r \in {x \in t : x.name = name \/ {x.name, name} = {"a", "A"}}}

\* Inventory.find_by_name(name): cls.name == name
find_by_name(t, name) == {ObjOfRow(r) : r \in {x \in t : x.name = name}}

\* a lookup by condition that does not filter
find_by_condition_unfiltered(t, condition) == {ObjOfRow(r) : r \in t}

\* Inventory.find_by_condition(condition): cls.condition == condition
find_by_condition(t, condition) ==
    {ObjOfRow(r) : r \in {x \in t : x.condition = condition}}

\* Inventory.find_by_stock_level(stock_level): cls.stock_level == stock_level
find_by_stock_level(t, stock_level) ==
    {ObjOfRow(r) : r \in {x \in t : x.stock_level = stock_level}}

----------------------------------------------------------------------------
(* Persistence methods of Inventory.  Each returns the table and sequence  *)
(* after the call, the instance, and the exception raised ("" for none).   *)
(* A commit that raises is rolled back: the table is as before.            *)

Persisted(t, n, o, error, msg) ==
    [table |-> t, nextId |-> n, obj |-> o, error |-> error, msg |-> msg]

\* a create that numbers the new row by counting the rows
create_counting(self, t, n, up) ==
    LET s == [self EXCEPT !.id = None] IN
    IF ~up \/ ~Flushable(s)
    THEN Persisted(t, n, s, "DataValidationError", "commit failed")
    ELSE Persisted(t \cup {RowOfObj(s, Cardinality(t) + 1)}, n + 1,
                   [s EXCEPT !.id = JInt(Cardinality(t) + 1)], "", "")

\* a create that flushes (the id is assigned) and never commits
create_uncommitted(self, t, n, up) ==
    LET s == [self EXCEPT !.id = None] IN
    IF ~up \/ ~Flushable(s) \/ n \in Ids(t)
    THEN Persisted(t, n, s, "DataValidationError", "commit failed")
    ELSE Persisted(t, n + 1, [s EXCEPT !.id = JInt(n)], "", "")

\* a create that stores a default name for a name that is null
create_defaulting(self, t, n, up) ==
    LET s == [self EXCEPT !.id = None,
                          !.name = IF self.name = None THEN JStr("a") ELSE self.name] IN
    IF ~up \/ ~Flushable(s) \/ n \in Ids(t)
    THEN Persisted(t, n, s, "DataValidationError", "commit failed")
    ELSE Persisted(t \cup {RowOfObj(s, n)}, n + 1,
                   [s EXCEPT !.id = JInt(n)], "", "")

\* Inventory.create(): the id is reset, the row is added and committed; the
\* primary key of a row added without an id is the next sequence value.
create(self, t, n, up) ==
    LET s == [self EXCEPT !.id = None] IN
    IF ~up \/ ~Flushable(s) \/ n \in Ids(t)
    THEN Persisted(t, n, s, "DataValidationError", "commit failed")
    ELSE Persisted(t \cup {RowOfObj(s, n)}, n + 1,
                   [s EXCEPT !.id = JInt(n)], "", "")

\* an update that reports success and commits nothing
update_uncommitted(self, t, n, up) ==
    IF self.id = None \/ self.id = JInt(0)
    THEN Persisted(t, n, self, "DataValidationError",
                   "Update called with empty ID field")
    ELSE Persisted(t, n, self, "", "")

\* an update that deletes the row and inserts it again under a new key
update_reinserting(self, t, n, up) ==
    IF self.id = None \/ self.id = JInt(0)
    THEN Persisted(t, n, self, "DataValidationError",
                   "Update called with empty ID field")
    ELSE IF ~up \/ ~Flushable(self) \/ self.id.int \notin Ids(t)
    THEN Persisted(t, n, self, "DataValidationError", "commit failed")
    ELSE Persisted({r \in t : r.id # self.id.int} \cup {RowOfObj(self, n)},
                   n + 1, [self EXCEPT !.id = JInt(n)], "", "")

\* Inventory.update(): refuses an empty id, then commits the instance's
\* pending changes to its row.
update(self, t, n, up) ==
    IF self.id = None \/ self.id = JInt(0)
    THEN Persisted(t, n, self, "DataValidationError",
                   "Update called with empty ID field")
    ELSE IF ~up \/ ~Flushable(self) \/ self.id.int \notin Ids(t)
    THEN Persisted(t, n, self, "DataValidationError", "commit failed")
    ELSE Persisted({r \in t : r.id # self.id.int}
                        \cup {RowOfObj(self, self.id.int)},
                   n, self, "", "")

\* a delete that reports success and removes nothing
delete_nothing(self, t, n, up) == Persisted(t, n, self, "", "")

\* a delete whose failed commit is not rolled back: the row is gone
delete_unrolled(self, t, n, up) ==
    IF ~up
    THEN Persisted({r \in t : JInt(r.id) # self.id}, n, self,
                   "DataValidationError", "commit failed")
    ELSE Persisted({r \in t : JInt(r.id) # self.id}, n, self, "", "")

\* Inventory.delete(): the row is deleted and the deletion committed
delete(self, t, n, up) ==
    IF ~up
    THEN Persisted(t, n, self, "DataValidationError", "commit failed")
    ELSE Persisted({r \in t : JInt(r.id) # self.id}, n, self, "", "")

----------------------------------------------------------------------------
(* Requests and responses *)

NoHeaders == [h \in {} |-> ""]
JsonHeaders == [h \in {"Content-Type"} |-> "application/json"]
HtmlHeaders == [h \in {"Content-Type"} |-> "text/html"]

\* request.args as sent: every parameter absent.  quantity is a parameter
\* callers send and InventoryCollection.get never reads.
NoArgs ==
    [name |-> None, quantity |-> None, quantity_min |-> None,
     quantity_max |-> None, condition |-> None, stock_level |-> None]

\* what the state keeps of the last request: the operation, the id in the
\* path, the "id" key of the payload when it carried one, and the query
\* string of a list request
Request(op, id, data) ==
    [op |-> op, id |-> id,
     payload_id |-> IF data.type = "obj" /\ "id" \in DOMAIN data.obj
                    THEN data.obj.id ELSE None,
     args |-> NoArgs]

\* the response: status, the exception or abort behind an error status and
\* its message, the body, the Location header
Response(req, status, error, message, body, location) ==
    [req |-> req, status |-> status, error |-> error, message |-> message,
     body |-> body, location |-> location, results |-> {}]

Served(t, n, r) == [table |-> t, nextId |-> n, resp |-> r]

\* the handler registered for DataValidationError (service.common): 400
DataValidationErrorStatus == HTTP_400_BAD_REQUEST

\* a check that lets a request without the header through
check_content_type_lenient(headers, content_type) ==
    "Content-Type" \in DOMAIN headers => headers["Content-Type"] = content_type

\* check_content_type("application/json"): TRUE when the request passes
check_content_type(headers, content_type) ==
    /\ "Content-Type" \in DOMAIN headers
    /\ headers["Content-Type"] = content_type

\* api.url_for(InventoryResource, inventory_id=...): the path of the URL
url_for(id) ==
    IF id.type = "int" THEN "/api/inventory/" \o ToString(id.int)
    ELSE "/api/inventory/None"

\* InventoryCollection.post
InventoryCollection_post(t, n, up, headers, data) ==
    LET req == Request("create", "", data) IN
    IF ~check_content_type(headers, "application/json")
    THEN Served(t, n, Response(req, HTTP_415_UNSUPPORTED_MEDIA_TYPE,
                               "UnsupportedMediaType",
                               "Content-Type must be application/json", None, ""))
    ELSE LET d == deserialize(NewInventory, data) IN
    IF d.error # ""
    THEN Served(t, n, Response(req, DataValidationErrorStatus, d.error, d.msg,
                               None, ""))
    ELSE LET c == create(d.obj, t, n, up) IN
    IF c.error # ""
    THEN Served(t, n, Response(req, DataValidationErrorStatus, c.error, c.msg,
                               None, ""))
    ELSE Served(c.table, c.nextId,
                Response(req, HTTP_201_CREATED, "", "",
                         marshal(serialize(c.obj)), url_for(c.obj.id)))

\* InventoryResource.get
InventoryResource_get(t, n, inventory_id) ==
    LET req == Request("get", inventory_id, None)
        inventory == find(t, inventory_id) IN
    IF inventory = None
    THEN Served(t, n, Response(req, HTTP_404_NOT_FOUND, "NotFound",
                               "Inventory was not found.", None, ""))
    ELSE Served(t, n, Response(req, HTTP_200_OK, "", "",
                               marshal(serialize(inventory)), ""))

\* an update that validates the payload before it looks the item up
InventoryResource_put_validating_first(t, n, up, inventory_id, headers, data) ==
    LET req == Request("update", inventory_id, data) IN
    IF ~check_content_type(headers, "application/json")
    THEN Served(t, n, Response(req, HTTP_415_UNSUPPORTED_MEDIA_TYPE,
                               "UnsupportedMediaType",
                               "Content-Type must be application/json", None, ""))
    ELSE IF deserialize(NewInventory, data).error # ""
    THEN Served(t, n, Response(req, DataValidationErrorStatus,
                               deserialize(NewInventory, data).error,
                               deserialize(NewInventory, data).msg, None, ""))
    ELSE LET inventory == find(t, inventory_id) IN
    IF inventory = None
    THEN Served(t, n, Response(req, HTTP_404_NOT_FOUND, "NotFound",
                               "Inventory was not found.", None, ""))
    ELSE LET u == update(deserialize(inventory, data).obj, t, n, up) IN
    IF u.error # ""
    THEN Served(t, n, Response(req, DataValidationErrorStatus, u.error, u.msg,
                               None, ""))
    ELSE Served(u.table, u.nextId,
                Response(req, HTTP_200_OK, "", "", marshal(serialize(u.obj)), ""))

\* InventoryResource.put
InventoryResource_put(t, n, up, inventory_id, headers, data) ==
    LET req == Request("update", inventory_id, data) IN
    IF ~check_content_type(headers, "application/json")
    THEN Served(t, n, Response(req, HTTP_415_UNSUPPORTED_MEDIA_TYPE,
                               "UnsupportedMediaType",
                               "Content-Type must be application/json", None, ""))
    ELSE LET inventory == find(t, inventory_id) IN
    IF inventory = None
    THEN Served(t, n, Response(req, HTTP_404_NOT_FOUND, "NotFound",
                               "Inventory was not found.", None, ""))
    ELSE LET d == deserialize(inventory, data) IN
    IF d.error # ""
    THEN Served(t, n, Response(req, DataValidationErrorStatus, d.error, d.msg,
                               None, ""))
    ELSE LET u == update(d.obj, t, n, up) IN
    IF u.error # ""
    THEN Served(t, n, Response(req, DataValidationErrorStatus, u.error, u.msg,
                               None, ""))
    ELSE Served(u.table, u.nextId,
                Response(req, HTTP_200_OK, "", "", marshal(serialize(u.obj)), ""))

\* InventoryResource.put, what it leaves in the session: the loaded instance
\* with the attributes deserialize assigned before it raised.  A commit
\* writes the changes out, a failed commit is rolled back: nothing is left.
pending_put(t, inventory_id, headers, data) ==
    IF ~check_content_type(headers, "application/json") THEN {}
    ELSE IF find(t, inventory_id) = None THEN {}
    ELSE LET d == deserialize(find(t, inventory_id), data) IN
         IF d.error # "" /\ d.obj # find(t, inventory_id) THEN {d.obj} ELSE {}

\* a teardown that leaves the session as it is
shutdown_session_keeping(pending) == pending

\* db = SQLAlchemy(): the session is scoped to the application context of
\* the request and removed when that context is torn down, which discards
\* every uncommitted change
shutdown_session(pending) == {}

\* InventoryResource.delete
InventoryResource_delete(t, n, up, inventory_id) ==
    LET req == Request("delete", inventory_id, None)
        inventory == find(t, inventory_id) IN
    IF inventory = None
    THEN Served(t, n, Response(req, HTTP_204_NO_CONTENT, "", "", None, ""))
    ELSE LET x == delete(inventory, t, n, up) IN
    IF x.error # ""
    THEN Served(t, n, Response(req, DataValidationErrorStatus, x.error, x.msg,
                               None, ""))
    ELSE Served(x.table, x.nextId,
                Response(req, HTTP_204_NO_CONTENT, "", "", None, ""))

\* RestockResource.put, line by line: the sum, and the guard on it
new_quantity(inventory, quantity) == inventory.quantity.int + quantity.int

\* a guard that also refuses a resulting quantity of zero
would_be_negative_or_zero(q) == q <= 0

\* a guard that refuses nothing
would_be_negative_never(q) == FALSE

would_be_negative(q) == q < 0

\* RestockResource.put
RestockResource_put(t, n, up, inventory_id, quantity) ==
    LET req == Request("restock", inventory_id, None)
        delta == ParseInt(quantity) IN
    IF delta = None
    THEN Served(t, n, Response(req, HTTP_400_BAD_REQUEST, "BadRequest",
                               "not a valid integer.", None, ""))
    ELSE LET inventory == find(t, inventory_id) IN
    IF inventory = None
    THEN Served(t, n, Response(req, HTTP_404_NOT_FOUND, "NotFound",
                               "Inventory was not found.", None, ""))
    ELSE IF would_be_negative(new_quantity(inventory, delta))
    THEN Served(t, n, Response(req, HTTP_400_BAD_REQUEST, "BadRequest",
                               "resulting quantity would be negative.", None, ""))
    ELSE LET u == update([inventory EXCEPT
                             !.quantity = JInt(new_quantity(inventory, delta))],
                         t, n, up) IN
    IF u.error # ""
    THEN Served(t, n, Response(req, DataValidationErrorStatus, u.error, u.msg,
                               None, ""))
    ELSE Served(u.table, u.nextId,
                Response(req, HTTP_200_OK, "", "", serialize(u.obj), ""))

\* bool(value) of a query-string parameter: given and not empty
Truthy(v) == v # None /\ v.str # ""

Listed(req, inventories) ==
    [Response(req, HTTP_200_OK, "", "", None, "")
        EXCEPT !.results = {marshal(serialize(i)) : i \in inventories}]

\* InventoryCollection.get.  The quantity-range branch converts its bounds
\* with int() and then calls Inventory.find_by_quantity_range, a method the
\* class does not define: the call raises AttributeError.
InventoryCollection_get(t, n, args) ==
    LET req == [Request("list", "", None) EXCEPT !.args = args] IN
    IF Truthy(args.name)
    THEN Served(t, n, Listed(req, find_by_name(t, args.name.str)))
    ELSE IF Truthy(args.quantity_min) \/ Truthy(args.quantity_max)
    THEN LET qmin == IF Truthy(args.quantity_min)
                     THEN ParseInt(args.quantity_min.str) ELSE JInt(0)
             qmax == IF Truthy(args.quantity_max)
                     THEN ParseInt(args.quantity_max.str) ELSE None IN
         IF qmin = None \/ (Truthy(args.quantity_max) /\ qmax = None)
         THEN Served(t, n, Response(req, HTTP_500_INTERNAL_SERVER_ERROR,
                                    "ValueError", "invalid literal for int()",
                                    None, ""))
         ELSE Served(t, n, Response(req, HTTP_500_INTERNAL_SERVER_ERROR,
                                    "AttributeError",
                                    "Inventory has no attribute find_by_quantity_range",
                                    None, ""))
    ELSE IF Truthy(args.condition)
    THEN Served(t, n, Listed(req, find_by_condition(t, args.condition.str)))
    ELSE IF Truthy(args.stock_level)
    THEN Served(t, n, Listed(req, find_by_stock_level(t, args.stock_level.str)))
    ELSE Served(t, n, Listed(req, all(t)))

----------------------------------------------------------------------------
(* The requests the model sends *)

\* name, condition, stock_level of the sample payloads
Shapes ==
    {<<"a", "NEW", "IN_STOCK">>, <<"A", "OPENBOX", "LOW_STOCK">>}

Quantities == 0..MaxQty

Payload(name, quantity, condition, stock_level) ==
    JObj([name |-> JStr(name), quantity |-> JInt(quantity),
          condition |-> JStr(condition), stock_level |-> JStr(stock_level)])

\* one sample is negative
ValidPayloads ==
    {Payload(sh[1], q, sh[2], sh[3]) : sh \in Shapes, q \in Quantities}
    \cup {Payload("a", 0 - 1, "NEW", "IN_STOCK")}

\* a valid payload that also carries an "id" key
WithId(p, id) == JObj([k \in DOMAIN p.obj \cup {"id"} |->
                          IF k = "id" THEN JInt(id) ELSE p.obj[k]])

PayloadsWithId ==
    {WithId(Payload(sh[1], 0, sh[2], sh[3]), id) : sh \in Shapes, id \in 1..MaxId}

Base == Payload("a", 1, "NEW", "IN_STOCK")

Without(p, key) == JObj([k \in DOMAIN p.obj \ {key} |-> p.obj[k]])

BadCondition == JObj([Base.obj EXCEPT !.condition = JStr("XXX")])
BadStockLevel == JObj([Base.obj EXCEPT !.stock_level = JStr("XXX")])
BadQuantity == JObj([Base.obj EXCEPT !.quantity = JStr("XXX")])
EmptyPayload == JObj([k \in {} |-> None])

InvalidPayloads ==
    {Without(Base, k) : k \in DOMAIN Base.obj}
    \cup {EmptyPayload, BadQuantity, BadCondition, BadStockLevel,
          JObj([Base.obj EXCEPT !.condition = JStr("new")]),
          JObj([Base.obj EXCEPT !.condition = None]),
          JObj([Base.obj EXCEPT !.stock_level = JInt(1)]),
          JObj([BadCondition.obj EXCEPT !.name = JStr("A"), !.quantity = JInt(0)]),
          JObj([BadStockLevel.obj EXCEPT !.name = JStr("A"), !.quantity = JInt(0)]),
          JStr("this is not a dictionary")}

\* every payload the properties below range over
Payloads == ValidPayloads \cup PayloadsWithId \cup InvalidPayloads

\* the payloads the requests of a run carry
SentPayloads ==
    ValidPayloads
    \cup {WithId(Payload("A", 0, "OPENBOX", "LOW_STOCK"), 1),
          EmptyPayload, BadCondition, BadStockLevel}

\* a request that is not JSON carries a text body
Bodies(headers) == IF headers = JsonHeaders THEN SentPayloads ELSE {JStr("hello")}

Headers == {JsonHeaders, HtmlHeaders, NoHeaders}

PathIds == {ToString(i) : i \in 1..MaxId}

Deltas == {ToString(d) : d \in (0 - MaxQty - 1)..(MaxQty + 1)} \cup {"abc"}

\* the query strings of the list requests
Args(name, quantity_min, quantity_max, condition, stock_level) ==
    [NoArgs EXCEPT !.name = name, !.quantity_min = quantity_min,
                   !.quantity_max = quantity_max, !.condition = condition,
                   !.stock_level = stock_level]

Queries ==
    {NoArgs}
    \cup {[NoArgs EXCEPT !.name = JStr(x)] : x \in {"a", "A"}}
    \cup {[NoArgs EXCEPT !.condition = JStr(x)] : x \in DOMAIN Condition}
    \cup {[NoArgs EXCEPT !.stock_level = JStr(x)] : x \in DOMAIN StockLevel}
    \cup {[NoArgs EXCEPT !.quantity_min = JStr(ToString(x))] : x \in 0..MaxQty}
    \cup {[NoArgs EXCEPT !.quantity_max = JStr(ToString(x))] : x \in 0..MaxQty}
    \cup {[NoArgs EXCEPT !.quantity = JStr(ToString(x))] : x \in 0..MaxQty}

SentQueries ==
    {NoArgs, [NoArgs EXCEPT !.name = JStr("a")],
     [NoArgs EXCEPT !.condition = JStr("NEW")],
     [NoArgs EXCEPT !.stock_level = JStr("LOW_STOCK")],
     [NoArgs EXCEPT !.quantity_min = JStr("1")]}

Workers == {"w1", "w2"}

IdleWorker ==
    [pc |-> "idle", id |-> "", delta |-> None, inventory |-> None, status |-> 0]

----------------------------------------------------------------------------
(* The service, one request at a time *)

Init ==
    /\ table = {}
    /\ nextId = 1
    /\ dbUp = TRUE
    /\ resp = Response(Request("", "", None), 0, "", "", None, "")
    /\ session = {}
    /\ workers = [w \in Workers |-> IdleWorker]
    /\ ledger = [i \in {} |-> 0]

\* a request is served: its effect on the table and the sequence, its
\* response, and the teardown of its application context
ServeWith(o, pending) ==
    /\ table' = o.table
    /\ nextId' = o.nextId
    /\ resp' = o.resp
    /\ session' = shutdown_session(session \cup pending)
    /\ UNCHANGED <<dbUp, workers, ledger>>

Serve(o) == ServeWith(o, {})

\* within the bounds: the sequence stays in 1..MaxId, quantities up to MaxQty
InBounds(o) ==
    /\ o.nextId <= MaxId + 1
    /\ \A r \in o.table : r.quantity <= MaxQty

Create ==
    \E headers \in Headers : \E data \in Bodies(headers) :
        \E o \in {InventoryCollection_post(table, nextId, dbUp, headers, data)} :
            InBounds(o) /\ Serve(o)

Retrieve ==
    \E id \in PathIds :
        \E o \in {InventoryResource_get(table, nextId, id)} : Serve(o)

Update ==
    \E id \in PathIds : \E headers \in Headers : \E data \in Bodies(headers) :
        \E o \in {InventoryResource_put(table, nextId, dbUp, id, headers, data)} :
            ServeWith(o, pending_put(table, id, headers, data))

Delete ==
    \E id \in PathIds :
        \E o \in {InventoryResource_delete(table, nextId, dbUp, id)} : Serve(o)

Restock ==
    \E id \in PathIds : \E quantity \in Deltas :
        \E o \in {RestockResource_put(table, nextId, dbUp, id, quantity)} :
            InBounds(o) /\ Serve(o)

List ==
    \E args \in SentQueries :
        \E o \in {InventoryCollection_get(table, nextId, args)} : Serve(o)

Next == Create \/ Retrieve \/ Update \/ Delete \/ Restock \/ List

Spec == Init /\ [][Next]_vars

----------------------------------------------------------------------------
(* The service while the store refuses commits now and then *)

SetDb ==
    /\ dbUp' = ~dbUp
    /\ UNCHANGED <<table, nextId, resp, session, workers, ledger>>

NextFault == Next \/ SetDb

SpecFault == Init /\ [][NextFault]_vars

----------------------------------------------------------------------------
(* Two RestockResource.put calls in flight, each in its own session: the   *)
(* handler's statements run one at a time, interleaved with the other's.   *)

\* the requests the two callers send
ConcDeltas == {"1", "-1", "abc"}
ConcPayloads == {Payload("a", q, "NEW", "IN_STOCK") : q \in Quantities}

\* a caller's request moves on; once it is answered only the status is kept
Step(w, pc, status) ==
    [workers EXCEPT ![w] =
        IF pc = "done" THEN [IdleWorker EXCEPT !.pc = pc, !.status = status]
        ELSE [@ EXCEPT !.pc = pc, !.status = status]]

\* a row is created (one request, run to its end)
ConcCreate ==
    \E data \in ConcPayloads :
        \E o \in {InventoryCollection_post(table, nextId, dbUp, JsonHeaders, data)} :
            /\ InBounds(o)
            /\ table' = o.table
            /\ nextId' = o.nextId
            /\ resp' = o.resp
            /\ ledger' = [i \in Ids(o.table) |->
                            IF i \in DOMAIN ledger THEN ledger[i]
                            ELSE data.obj.quantity.int]
            /\ UNCHANGED <<dbUp, session, workers>>

\* quantity = int(quantity), abort(400) on ValueError
RestockBegin(w) ==
    /\ workers[w].pc \in {"idle", "done"}
    /\ \E id \in PathIds : \E quantity \in ConcDeltas :
        workers' =
            IF ParseInt(quantity) = None
            THEN Step(w, "done", HTTP_400_BAD_REQUEST)
            ELSE [workers EXCEPT ![w] =
                    [IdleWorker EXCEPT !.pc = "find", !.id = id,
                                       !.delta = ParseInt(quantity)]]
    /\ UNCHANGED <<table, nextId, dbUp, resp, session, ledger>>

\* inventory = Inventory.find(inventory_id), abort(404) when there is none
RestockFind(w) ==
    /\ workers[w].pc = "find"
    /\ workers' =
        IF find(table, workers[w].id) = None
        THEN Step(w, "done", HTTP_404_NOT_FOUND)
        ELSE [Step(w, "check", 0) EXCEPT ![w].inventory = find(table, workers[w].id)]
    /\ UNCHANGED <<table, nextId, dbUp, resp, session, ledger>>

\* new_quantity = inventory.quantity + quantity, abort(400) when negative,
\* inventory.quantity = new_quantity
RestockCheck(w) ==
    /\ workers[w].pc = "check"
    /\ workers' =
        IF would_be_negative(new_quantity(workers[w].inventory, workers[w].delta))
        THEN Step(w, "done", HTTP_400_BAD_REQUEST)
        ELSE [Step(w, "commit", 0) EXCEPT ![w].inventory.quantity =
                JInt(new_quantity(workers[w].inventory, workers[w].delta))]
    /\ UNCHANGED <<table, nextId, dbUp, resp, session, ledger>>

\* inventory.update(), then the 200 response
RestockCommit(w) ==
    /\ workers[w].pc = "commit"
    /\ \E u \in {update(workers[w].inventory, table, nextId, dbUp)} :
        /\ \A r \in u.table : r.quantity <= MaxQty
        /\ table' = u.table
        /\ ledger' = IF u.error = ""
                     THEN [ledger EXCEPT ![workers[w].inventory.id.int] =
                                @ + workers[w].delta.int]
                     ELSE ledger
        /\ \A i \in DOMAIN ledger' : ledger'[i] \in 0..(MaxQty + 1)
        /\ workers' = Step(w, "done", IF u.error = "" THEN HTTP_200_OK
                                      ELSE DataValidationErrorStatus)
    /\ UNCHANGED <<nextId, dbUp, resp, session>>

NextConc ==
    \/ ConcCreate
    \/ \E w \in Workers :
        RestockBegin(w) \/ RestockFind(w) \/ RestockCheck(w) \/ RestockCommit(w)

SpecConc == Init /\ [][NextConc]_vars

----------------------------------------------------------------------------
(* Properties.  A property about what an operation does is stated of the   *)
(* handler applied to the current state, for every request in the sets     *)
(* above, so it covers every reachable store and every sampled request.    *)

Stored(id) == find(table, id) # None

ItemKeys == {"name", "quantity", "condition", "stock_level"}

\* C1: restock(id, delta) on a stored item of quantity q with q + delta >= 0
\* (the store accepting the commit) answers 200, the stored quantity becomes
\* exactly q + delta, and the returned record carries the new quantity.
C1_RestockAddsDelta ==
    \A id \in PathIds : \A quantity \in Deltas :
        (/\ dbUp
         /\ Stored(id)
         /\ ParseInt(quantity) # None
         /\ find(table, id).quantity.int + ParseInt(quantity).int >= 0)
        => LET q == find(table, id).quantity.int
               delta == ParseInt(quantity).int
               o == RestockResource_put(table, nextId, dbUp, id, quantity) IN
           /\ o.resp.status = HTTP_200_OK
           /\ find(o.table, id).quantity = JInt(q + delta)
           /\ o.resp.body.obj.quantity = JInt(q + delta)
           /\ o.resp.body.obj.id = find(table, id).id

\* a restock was answered 200 and the record it returned carries the
\* quantity now stored, here zero: the boundary q + delta = 0
C1_Witness ==
    /\ resp.req.op = "restock"
    /\ resp.status = HTTP_200_OK
    /\ resp.body.obj.quantity = JInt(0)
    /\ find(table, resp.req.id).quantity = JInt(0)

\* C2: restock(id, delta) on a stored item of quantity q with q + delta < 0
\* is refused with 400 (a bad request) and the store is left as it was.
C2_RestockRefusesNegative ==
    \A id \in PathIds : \A quantity \in Deltas :
        (/\ Stored(id)
         /\ ParseInt(quantity) # None
         /\ find(table, id).quantity.int + ParseInt(quantity).int < 0)
        => LET o == RestockResource_put(table, nextId, dbUp, id, quantity) IN
           /\ o.resp.status = HTTP_400_BAD_REQUEST
           /\ o.resp.error = "BadRequest"
           /\ o.table = table
           /\ find(o.table, id).quantity = find(table, id).quantity

\* a restock was refused for a negative result, its item still stored
C2_Witness ==
    /\ resp.req.op = "restock"
    /\ resp.status = HTTP_400_BAD_REQUEST
    /\ resp.message = "resulting quantity would be negative."
    /\ Stored(resp.req.id)

\* C3: restocks are atomic per call: when no restock is in flight, every
\* stored quantity is the quantity the item was created with plus the deltas
\* of all the restocks on it that were answered 200 (no update is lost).
C3_NoLostUpdate ==
    (\A w \in Workers : workers[w].pc \in {"idle", "done"})
    => \A r \in table : r.quantity = ledger[r.id]

\* C4: the quantity of every stored item is non-negative.
C4_QuantityNonNegative == \A r \in table : r.quantity >= 0

\* a payload whose condition or stock_level is not one of the listed values
HasBadEnum(data) ==
    /\ data.type = "obj"
    /\ \/ /\ "condition" \in DOMAIN data.obj
          /\ data.obj.condition \notin {JStr("NEW"), JStr("OPENBOX"), JStr("USED")}
       \/ /\ "stock_level" \in DOMAIN data.obj
          /\ data.obj.stock_level \notin
                {JStr("IN_STOCK"), JStr("LOW_STOCK"), JStr("OUT_OF_STOCK")}

\* C5: every stored item's condition is one of NEW, OPENBOX, USED and its
\* stock_level one of IN_STOCK, LOW_STOCK, OUT_OF_STOCK; a create or an
\* update whose payload carries another value is refused with a validation
\* error (an update of an id not stored with 404) and nothing is stored.
C5_EnumsValid ==
    /\ \A r \in table :
        /\ r.condition \in {"NEW", "OPENBOX", "USED"}
        /\ r.stock_level \in {"IN_STOCK", "LOW_STOCK", "OUT_OF_STOCK"}
    /\ \A data \in Payloads : HasBadEnum(data) =>
        /\ LET o == InventoryCollection_post(table, nextId, dbUp, JsonHeaders, data) IN
            /\ o.resp.status = HTTP_400_BAD_REQUEST
            /\ o.resp.error = "DataValidationError"
            /\ o.table = table
        /\ \A id \in PathIds :
            LET u == InventoryResource_put(table, nextId, dbUp, id, JsonHeaders, data) IN
            /\ u.table = table
            /\ IF Stored(id)
               THEN u.resp.status = HTTP_400_BAD_REQUEST
                    /\ u.resp.error = "DataValidationError"
               ELSE u.resp.status = HTTP_404_NOT_FOUND

\* an update of a stored item was refused for its stock_level value
C5_Witness ==
    /\ resp.req.op = "update"
    /\ resp.status = HTTP_400_BAD_REQUEST
    /\ resp.message = "Invalid value for StockLevel"
    /\ Stored(resp.req.id)

\* what an update or a restock served now would do to the ids
C6_IdImmutable_Now ==
    /\ \A id \in PathIds : \A data \in ValidPayloads \cup PayloadsWithId :
        LET u == InventoryResource_put(table, nextId, dbUp, id, JsonHeaders, data) IN
        /\ Ids(u.table) = Ids(table)
        /\ Cardinality(u.table) = Cardinality(table)
        /\ \A j \in PathIds \ {id} : find(u.table, j) = find(table, j)
        /\ u.resp.status = HTTP_200_OK =>
            /\ u.resp.body.obj.id = JStr(id)
            /\ find(u.table, id).id = find(table, id).id
            /\ \A k \in ItemKeys :
                serialize(find(u.table, id)).obj[k] = data.obj[k]
    /\ \A id \in PathIds : \A quantity \in Deltas :
        LET o == RestockResource_put(table, nextId, dbUp, id, quantity) IN
        /\ Ids(o.table) = Ids(table)
        /\ Cardinality(o.table) = Cardinality(table)
        /\ \A j \in PathIds \ {id} : find(o.table, j) = find(table, j)
        /\ o.resp.status = HTTP_200_OK =>
            o.resp.body.obj.id = find(table, id).id

\* C6: an update or a restock never changes an item's id: the same ids are
\* stored afterwards, the answer of a successful call carries the id of the
\* path, an id in an update payload is ignored (the item of that id is left
\* as it was).
C6_IdImmutable == []C6_IdImmutable_Now

\* an update whose payload carried the id of another stored item succeeded
C6_Witness ==
    /\ resp.req.op = "update"
    /\ resp.status = HTTP_200_OK
    /\ resp.req.payload_id # None
    /\ resp.req.payload_id # JInt(0)
    /\ resp.body.obj.id = JStr(resp.req.id)
    /\ JStr(ToString(resp.req.payload_id.int)) # resp.body.obj.id
    /\ resp.req.payload_id.int \in Ids(table)

\* C7: a create discards an id in the payload and the store assigns the id:
\* a fresh one, the item is added to the store and no stored item is
\* replaced; no two stored items share an id.
C7_CreateAssignsFreshId ==
    /\ \A r1 \in table : \A r2 \in table : r1.id = r2.id => r1 = r2
    /\ \A data \in Payloads :
        LET o == InventoryCollection_post(table, nextId, dbUp, JsonHeaders, data) IN
        IF o.resp.status = HTTP_201_CREATED
        THEN /\ table \subseteq o.table
             /\ Cardinality(o.table) = Cardinality(table) + 1
             /\ \A row \in o.table \ table :
                    /\ row.id \notin Ids(table)
                    /\ row.id = nextId
                    /\ o.resp.body.obj.id = JStr(ToString(row.id))
        ELSE o.table = table

\* a create whose payload asked for the id of a stored item was answered 201
\* with another id, and both items are stored
C7_Witness ==
    /\ resp.req.op = "create"
    /\ resp.status = HTTP_201_CREATED
    /\ resp.req.payload_id = JInt(1)
    /\ resp.body.obj.id = JStr("2")
    /\ Stored("1")
    /\ Stored("2")

\* C8: after a delete answered 204, a retrieve of the same id answers 404
\* and no list, whatever its filter, returns the item; the delete of a
\* stored item is answered 204 (the store accepting the commit).
C8_DeletedIsGone ==
    \A id \in PathIds :
        LET d == InventoryResource_delete(table, nextId, dbUp, id) IN
        /\ (dbUp /\ Stored(id)) => d.resp.status = HTTP_204_NO_CONTENT
        /\ d.resp.status = HTTP_204_NO_CONTENT =>
            /\ InventoryResource_get(d.table, d.nextId, id).resp.status
                    = HTTP_404_NOT_FOUND
            /\ \A args \in Queries :
                \A i \in InventoryCollection_get(d.table, d.nextId, args).resp.results :
                    i.obj.id # JStr(id)

\* a delete of an id that had been assigned was answered 204 and the id is
\* not stored
C8_Witness ==
    /\ resp.req.op = "delete"
    /\ resp.status = HTTP_204_NO_CONTENT
    /\ ~Stored(resp.req.id)
    /\ \E i \in 1..MaxId : ToString(i) = resp.req.id /\ i < nextId

\* C9: a delete of an id that is not stored answers 404 and leaves the
\* store as it was.
C9_DeleteUnknownIs404 ==
    \A id \in PathIds :
        ~Stored(id) =>
            LET d == InventoryResource_delete(table, nextId, dbUp, id) IN
            /\ d.resp.status = HTTP_404_NOT_FOUND
            /\ d.table = table

\* C10: a create with a valid payload (the store accepting the commit)
\* answers 201 with a Location for the new item and a body carrying the
\* assigned id; a retrieve of that id right after answers 200 with the
\* name, quantity, condition and stock_level of the payload.
C10_CreateThenRetrieve ==
    \A data \in ValidPayloads \cup PayloadsWithId :
        dbUp =>
        LET o == InventoryCollection_post(table, nextId, dbUp, JsonHeaders, data) IN
        /\ o.resp.status = HTTP_201_CREATED
        /\ o.resp.body.obj.id.type = "str"
        /\ o.resp.location = "/api/inventory/" \o o.resp.body.obj.id.str
        /\ \A k \in ItemKeys : o.resp.body.obj[k] = data.obj[k]
        /\ LET g == InventoryResource_get(o.table, o.nextId, o.resp.body.obj.id.str) IN
            /\ g.resp.status = HTTP_200_OK
            /\ g.resp.body.obj.id = o.resp.body.obj.id
            /\ \A k \in ItemKeys : g.resp.body.obj[k] = data.obj[k]

\* a create was answered 201 with a Location, and the item it names is
\* stored with the fields of the answer
C10_Witness ==
    /\ resp.req.op = "create"
    /\ resp.status = HTTP_201_CREATED
    /\ resp.location = "/api/inventory/2"
    /\ Stored("2")
    /\ marshal(serialize(find(table, "2"))) = resp.body

\* what an update with a valid payload served now would do
C11_UpdateReplaces_Now ==
    \A id \in PathIds : \A data \in ValidPayloads \cup PayloadsWithId :
        (dbUp /\ Stored(id)) =>
        LET u == InventoryResource_put(table, nextId, dbUp, id, JsonHeaders, data) IN
        /\ u.resp.status = HTTP_200_OK
        /\ \A k \in ItemKeys :
            /\ serialize(find(u.table, id)).obj[k] = data.obj[k]
            /\ u.resp.body.obj[k] = data.obj[k]
        /\ {r \in u.table : ToString(r.id) # id} = {r \in table : ToString(r.id) # id}
        /\ Cardinality(u.table) = Cardinality(table)

\* C11: an update of a stored id with a valid payload (the store accepting
\* the commit) answers 200, the stored item then has the name, quantity,
\* condition and stock_level of the payload, and every other stored item is
\* as it was.
C11_UpdateReplaces == []C11_UpdateReplaces_Now

\* an update was answered 200, the item of the path now reads as the answer
\* does, and another item with other fields is stored beside it
C11_Witness ==
    /\ resp.req.op = "update"
    /\ resp.status = HTTP_200_OK
    /\ Stored(resp.req.id)
    /\ marshal(serialize(find(table, resp.req.id))) = resp.body
    /\ resp.body.obj.name = JStr("A")
    /\ \E r \in table : ToString(r.id) # resp.req.id /\ r.name = "a"

\* what an update with an invalid payload served now would leave behind
C12_InvalidUpdateLeavesNoTrace_Now ==
    /\ session = {}
    /\ \A id \in PathIds : \A data \in InvalidPayloads :
        Stored(id) =>
        LET u == InventoryResource_put(table, nextId, dbUp, id, JsonHeaders, data) IN
        /\ u.resp.status = HTTP_400_BAD_REQUEST
        /\ u.table = table
        /\ u.nextId = nextId
        /\ shutdown_session(session \cup pending_put(table, id, JsonHeaders, data)) = {}
        /\ InventoryResource_get(u.table, u.nextId, id).resp.body
                = InventoryResource_get(table, nextId, id).resp.body

\* C12: an update of a stored id with an invalid payload (a key missing, a
\* quantity that is no integer, a condition or stock_level outside its
\* enumeration, no mapping at all) answers 400 and the store is as it was;
\* the attributes assigned before the failure are discarded with the
\* request, so no later request finds them: the session holds no uncommitted
\* instance between requests and a retrieve answers as before.
C12_InvalidUpdateLeavesNoTrace == []C12_InvalidUpdateLeavesNoTrace_Now

\* an update was refused after deserialize had assigned the payload's name,
\* which differs from the stored one, to the loaded instance
C12_Witness ==
    /\ resp.req.op = "update"
    /\ resp.status = HTTP_400_BAD_REQUEST
    /\ resp.message = "Invalid value for Condition"
    /\ Stored(resp.req.id)
    /\ find(table, resp.req.id).name = JStr("A")
    /\ pending_put(table, resp.req.id, JsonHeaders, BadCondition) # {}

\* every payload with a name, an integer quantity and a condition and a
\* stock_level of the enumerations, over the names and quantities sampled
AllValidPayloads ==
    {Payload(name, quantity, Condition[c], StockLevel[l]) :
        name \in {"a", "A"}, quantity \in (0 - 1)..MaxQty,
        c \in DOMAIN Condition, l \in DOMAIN StockLevel}

\* every record those payloads deserialize to, new or with an id
AllValidRecords ==
    {[deserialize(NewInventory, P).obj EXCEPT !.id = id] :
        P \in AllValidPayloads, id \in {None} \cup {JInt(i) : i \in 1..MaxId}}

RoundTripOfPayload(P) ==
    LET d == deserialize(NewInventory, P) IN
    /\ d.error = ""
    /\ serialize(d.obj) # None
    /\ \A k \in ItemKeys : serialize(d.obj).obj[k] = P.obj[k]
    /\ serialize(d.obj).obj.condition.type = "str"
    /\ serialize(d.obj).obj.stock_level.type = "str"

RoundTripOfRecord(R) ==
    /\ serialize(R) # None
    /\ LET d == deserialize(NewInventory, serialize(R)) IN
        /\ d.error = ""
        /\ \A k \in ItemKeys : d.obj[k] = R[k]

RoundTripOfSamples ==
    /\ \A P \in AllValidPayloads \cup PayloadsWithId : RoundTripOfPayload(P)
    /\ \A R \in AllValidRecords : RoundTripOfRecord(R)

\* C13: for every valid payload P, serialize(deserialize(P)) has the name
\* and quantity of P and its condition and stock_level as strings; for every
\* valid record R (every stored one among them), deserialize(serialize(R))
\* has the name, quantity, condition and stock_level of R.
C13_RoundTrip ==
    /\ RoundTripOfSamples
    /\ \A R \in all(table) : RoundTripOfRecord(R)

\* a create answered with the serialization of what it deserialized, equal
\* to the payload field by field, and the record is stored
C13_Witness ==
    /\ resp.req.op = "create"
    /\ resp.status = HTTP_201_CREATED
    /\ \E P \in ValidPayloads :
        /\ P.obj.condition = JStr("OPENBOX")
        /\ \A k \in ItemKeys : resp.body.obj[k] = P.obj[k]
        /\ \E R \in all(table) :
            /\ FormatString(R.id) = resp.body.obj.id
            /\ \A k \in ItemKeys : serialize(R).obj[k] = P.obj[k]

\* the payload p cut down to the keys K
Restrict(p, K) == JObj([k \in K \cap DOMAIN p.obj |-> p.obj[k]])

\* mappings that lack at least one of the four keys; what they do carry is
\* valid in some and invalid in others
MissingKeyPayloads ==
    {Restrict(p, K) :
        p \in {WithId(Base, 1), BadQuantity, BadCondition, BadStockLevel},
        K \in SUBSET (ItemKeys \cup {"id"}) \ {K \in SUBSET (ItemKeys \cup {"id"}) :
                                                ItemKeys \subseteq K}}

MissingKeys(data) == ItemKeys \ DOMAIN data.obj

\* the message names a key the payload lacks
NamesMissingKey(data, msg) ==
    \E k \in MissingKeys(data) : msg = "Invalid Inventory: missing " \o k

\* what the payload carries of quantity, condition and stock_level is valid
PresentValid(data) ==
    /\ "quantity" \in DOMAIN data.obj => data.obj.quantity.type = "int"
    /\ ~HasBadEnum(data)

\* mappings that lack exactly one of the four keys
OneKeyMissing ==
    {Without(p, k) : p \in {Base, BadQuantity, BadCondition}, k \in ItemKeys}

\* deserializing into a new instance, over all the sampled mappings
MissingKeyNamedOnSamples ==
    \A data \in MissingKeyPayloads :
        LET d == deserialize(NewInventory, data) IN
        /\ d.error = "DataValidationError"
        /\ PresentValid(data) => NamesMissingKey(data, d.msg)

\* C14 as stated: for each of the keys name, quantity, condition and
\* stock_level, deserializing a mapping that lacks it, into a new instance or
\* a stored one, fails with a validation error whose message names a key the
\* payload lacks.
C14_MissingKeyNamed ==
    \A self \in {NewInventory} \cup all(table) : \A data \in OneKeyMissing :
        LET d == deserialize(self, data) IN
        /\ d.error = "DataValidationError"
        /\ NamesMissingKey(data, d.msg)

\* C14, amended: deserializing a mapping that lacks one of the four keys
\* always fails with a validation error; its message names a key the payload
\* lacks when the values the payload does carry are valid (deserialize
\* reports the first problem it meets in the order name, quantity,
\* condition, stock_level, so an invalid value met before the missing key is
\* reported instead).
C14_MissingKeyNamedWhenRestValid ==
    /\ MissingKeyNamedOnSamples
    /\ \A self \in all(table) : \A data \in OneKeyMissing :
        LET d == deserialize(self, data) IN
        /\ d.error = "DataValidationError"
        /\ PresentValid(data) => NamesMissingKey(data, d.msg)

\* a create with a mapping that lacks the name was refused, naming the key
C14_Witness ==
    /\ resp.req.op = "create"
    /\ resp.status = HTTP_400_BAD_REQUEST
    /\ resp.error = "DataValidationError"
    /\ resp.message = "Invalid Inventory: missing name"
    /\ EmptyPayload \in MissingKeyPayloads
    /\ Without(Base, "name") \in OneKeyMissing

\* payloads whose quantity is a string, a float, a boolean, null
NonIntegerQuantities ==
    {JStr("XXX"), JStr("1"), JFloat(1, 5), JBool(TRUE), JBool(FALSE), None}

NonIntegerQuantityPayloads ==
    {JObj([Base.obj EXCEPT !.quantity = q]) : q \in NonIntegerQuantities}

\* payloads that are no mapping
NonMappings == {JStr("this is not a dictionary"), JInt(1), None}

\* C15: deserialization, into a new instance or a stored one, fails with a
\* validation error for every payload whose quantity is a string, a float, a
\* boolean or null and for every payload that is no mapping; a create with
\* such a payload stores nothing.
C15_NonIntegerQuantityRefused ==
    \A data \in NonIntegerQuantityPayloads \cup NonMappings :
        /\ \A self \in {NewInventory} \cup all(table) :
            deserialize(self, data).error = "DataValidationError"
        /\ InventoryCollection_post(table, nextId, dbUp, JsonHeaders, data).table
                = table

\* C16: serialize never fails: for every inventory record, a freshly
\* constructed one with no attribute set and every stored one, it returns a
\* mapping with the keys id, name, quantity, condition, stock_level.
C16_SerializeTotal ==
    \A self \in {NewInventory} \cup all(table) :
        /\ serialize(self) # None
        /\ serialize(self).type = "obj"
        /\ DOMAIN serialize(self).obj = ItemKeys \cup {"id"}

\* the stored records whose serialization has value v under key k
StoredWith(k, v) == {R \in all(table) : serialize(R).obj[k] = v}

\* C17: for every condition value c, find_by_condition(c) returns exactly
\* the stored items whose condition is c, and for every stock level value s,
\* find_by_stock_level(s) exactly those whose stock_level is s; the list
\* endpoint answers 200 with exactly their serializations.
C17_FindByEnumExact ==
    /\ \A c \in DOMAIN Condition :
        /\ find_by_condition(table, Condition[c])
                = StoredWith("condition", JStr(Condition[c]))
        /\ LET o == InventoryCollection_get(table, nextId,
                        [NoArgs EXCEPT !.condition = JStr(Condition[c])]) IN
            /\ o.resp.status = HTTP_200_OK
            /\ o.resp.results = {marshal(serialize(R)) :
                                    R \in StoredWith("condition", JStr(Condition[c]))}
    /\ \A l \in DOMAIN StockLevel :
        /\ find_by_stock_level(table, StockLevel[l])
                = StoredWith("stock_level", JStr(StockLevel[l]))
        /\ LET o == InventoryCollection_get(table, nextId,
                        [NoArgs EXCEPT !.stock_level = JStr(StockLevel[l])]) IN
            /\ o.resp.status = HTTP_200_OK
            /\ o.resp.results = {marshal(serialize(R)) :
                                    R \in StoredWith("stock_level", JStr(StockLevel[l]))}

\* a list by condition NEW returned an item while an item of another
\* condition is stored and was left out
C17_Witness ==
    /\ resp.req.op = "list"
    /\ resp.req.args.condition = JStr("NEW")
    /\ resp.status = HTTP_200_OK
    /\ resp.results # {}
    /\ \A i \in resp.results : i.obj.condition = JStr("NEW")
    /\ \E r \in table : r.condition = "OPENBOX"

\* C18: find_by_name(n) returns exactly the stored items whose name is n
\* character for character: every stored item named n, and no item of
\* another name, one that differs only in letter case included; the list
\* endpoint answers 200 with exactly their serializations.
C18_FindByNameExact ==
    \A n \in {"a", "A", "b"} :
        /\ find_by_name(table, n) = StoredWith("name", JStr(n))
        /\ LET o == InventoryCollection_get(table, nextId,
                        [NoArgs EXCEPT !.name = JStr(n)]) IN
            /\ o.resp.status = HTTP_200_OK
            /\ o.resp.results = {marshal(serialize(R)) :
                                    R \in StoredWith("name", JStr(n))}

\* a list by name "a" returned an item while an item named "A" is stored
\* and was left out
C18_Witness ==
    /\ resp.req.op = "list"
    /\ resp.req.args.name = JStr("a")
    /\ resp.status = HTTP_200_OK
    /\ resp.results # {}
    /\ \A i \in resp.results : i.obj.name = JStr("a")
    /\ \E r \in table : r.name = "A"

\* C19: a list request with the query parameter quantity=q answers 200 with
\* exactly the stored items whose quantity is q.
C19_ListByQuantity ==
    \A q \in 0..MaxQty :
        LET o == InventoryCollection_get(table, nextId,
                    [NoArgs EXCEPT !.quantity = JStr(ToString(q))]) IN
        /\ o.resp.status = HTTP_200_OK
        /\ o.resp.results = {marshal(serialize(R)) :
                                R \in StoredWith("quantity", JInt(q))}

\* the text of a bound, or no parameter for None
Bound(b) == IF b = None THEN None ELSE JStr(ToString(b.int))

\* C20: a quantity-range lookup with the bounds min and max returns exactly
\* the stored items with min <= quantity <= max; through the list endpoint
\* quantity_min is 0 and quantity_max unbounded when only the other one is
\* supplied.
C20_ListByQuantityRange ==
    \A min \in {None} \cup {JInt(x) : x \in 0..MaxQty} :
    \A max \in {None} \cup {JInt(x) : x \in 0..MaxQty} :
        (min # None \/ max # None) =>
        LET o == InventoryCollection_get(table, nextId,
                    [NoArgs EXCEPT !.quantity_min = Bound(min),
                                   !.quantity_max = Bound(max)]) IN
        /\ o.resp.status = HTTP_200_OK
        /\ o.resp.results =
            {marshal(serialize(R)) : R \in {S \in all(table) :
                /\ (IF min = None THEN 0 ELSE min.int) <= S.quantity.int
                /\ (max = None \/ S.quantity.int <= max.int)}}

\* list requests carrying any combination of the criteria
FilterQueries ==
    {Args(name, quantity_min, quantity_max, condition, stock_level) :
        name \in {None, JStr("a"), JStr("A")},
        quantity_min \in {None, JStr("0")},
        quantity_max \in {None, JStr("1")},
        condition \in {None, JStr("NEW"), JStr("USED")},
        stock_level \in {None, JStr("LOW_STOCK")}}

\* the stored items a list request must return when exactly one criterion is
\* applied, chosen in the order name, quantity range, condition, stock_level
SelectedByPriority(args) ==
    IF args.name # None THEN StoredWith("name", args.name)
    ELSE IF args.quantity_min # None \/ args.quantity_max # None
    THEN {R \in all(table) :
            /\ (args.quantity_min = None
                    \/ ParseInt(args.quantity_min.str).int <= R.quantity.int)
            /\ (args.quantity_max = None
                    \/ R.quantity.int <= ParseInt(args.quantity_max.str).int)}
    ELSE IF args.condition # None THEN StoredWith("condition", args.condition)
    ELSE IF args.stock_level # None THEN StoredWith("stock_level", args.stock_level)
    ELSE all(table)

\* the same, for the requests that supply no quantity bound
PriorityWithoutRange ==
    \A args \in FilterQueries :
        (args.quantity_min = None /\ args.quantity_max = None) =>
        LET o == InventoryCollection_get(table, nextId, args) IN
        /\ o.resp.status = HTTP_200_OK
        /\ o.resp.results = {marshal(serialize(R)) : R \in SelectedByPriority(args)}

\* C21: a list request applies exactly one criterion, chosen in the order
\* name, quantity range, condition, stock_level: it answers with exactly the
\* stored items matching that criterion, whatever the other parameters are
\* (the items of the name when a name is supplied), and with every stored
\* item when no criterion is supplied.
C21_OneFilterByPriority ==
    \A args \in FilterQueries :
        LET o == InventoryCollection_get(table, nextId, args) IN
        /\ o.resp.status = HTTP_200_OK
        /\ o.resp.results = {marshal(serialize(R)) : R \in SelectedByPriority(args)}

\* list requests with values that are no number or no member of an
\* enumeration
OddQueries ==
    {[NoArgs EXCEPT !.quantity_min = JStr("abc")],
     [NoArgs EXCEPT !.quantity_max = JStr("abc")],
     [NoArgs EXCEPT !.quantity_min = JStr("1"), !.quantity_max = JStr("0")],
     [NoArgs EXCEPT !.condition = JStr("XXX")],
     [NoArgs EXCEPT !.stock_level = JStr("XXX")],
     [NoArgs EXCEPT !.name = JStr("b")]}

\* C22: the list operation has no failure outcome: in every reachable store
\* and for every combination of name, quantity_min, quantity_max, condition
\* and stock_level, values that are no number or no member included, it
\* answers 200 with an array and leaves the store as it was.
C22_ListNeverFails ==
    \A args \in FilterQueries \cup OddQueries :
        LET o == InventoryCollection_get(table, nextId, args) IN
        /\ o.resp.status = HTTP_200_OK
        /\ o.resp.error = ""
        /\ o.table = table
        /\ o.nextId = nextId

\* C23: a create or an update whose Content-Type header is missing or is not
\* application/json is answered 415 and the store is as it was, whatever the
\* payload and whether or not the id is stored: the check comes before the
\* lookup (no 404) and before the validation of the payload (no 400).
C23_WrongContentTypeIs415 ==
    \A headers \in {NoHeaders, HtmlHeaders} :
    \A data \in Payloads \cup {JStr("hello")} :
        /\ LET o == InventoryCollection_post(table, nextId, dbUp, headers, data) IN
            /\ o.resp.status = HTTP_415_UNSUPPORTED_MEDIA_TYPE
            /\ o.table = table
            /\ o.nextId = nextId
        /\ \A id \in PathIds :
            LET u == InventoryResource_put(table, nextId, dbUp, id, headers, data) IN
            /\ u.resp.status = HTTP_415_UNSUPPORTED_MEDIA_TYPE
            /\ u.table = table
            /\ u.nextId = nextId
            /\ pending_put(table, id, headers, data) = {}

\* an update without a JSON content type, of an id that is not stored while
\* another item is, was answered 415
C23_Witness ==
    /\ resp.req.op = "update"
    /\ resp.status = HTTP_415_UNSUPPORTED_MEDIA_TYPE
    /\ ~Stored(resp.req.id)
    /\ table # {}

\* path segments that are no integer
NonIntegerDeltas == {"abc", "1.5", "1a", "--1"}

\* C24: a restock whose delta is no integer answers 400, whether or not the
\* id is stored (the delta is checked first); a restock with an integer delta
\* of an id that is not stored answers 404; in both cases the store is as it
\* was.
C24_RestockBadDeltaOrUnknownId ==
    \A id \in PathIds :
        /\ \A quantity \in NonIntegerDeltas :
            LET o == RestockResource_put(table, nextId, dbUp, id, quantity) IN
            /\ o.resp.status = HTTP_400_BAD_REQUEST
            /\ o.resp.message = "not a valid integer."
            /\ o.table = table
            /\ o.nextId = nextId
        /\ \A quantity \in Deltas \ NonIntegerDeltas :
            ~Stored(id) =>
            LET o == RestockResource_put(table, nextId, dbUp, id, quantity) IN
            /\ o.resp.status = HTTP_404_NOT_FOUND
            /\ o.table = table
            /\ o.nextId = nextId

\* a restock with a delta that is no integer, of an id that is not stored
\* while another item is, was answered 400
C24_Witness ==
    /\ resp.req.op = "restock"
    /\ resp.status = HTTP_400_BAD_REQUEST
    /\ resp.message = "not a valid integer."
    /\ ~Stored(resp.req.id)
    /\ table # {}

\* C25: while the store refuses the commit, create, update and delete each
\* raise DataValidationError to the caller and leave the stored items and
\* all their fields as they were (the session is rolled back); the handlers
\* that call them, restock included, change nothing either.
C25_FailedCommitRollsBack ==
    ~dbUp =>
    /\ \A data \in ValidPayloads \cup PayloadsWithId :
        /\ LET c == create(deserialize(NewInventory, data).obj, table, nextId, dbUp) IN
            /\ c.error = "DataValidationError"
            /\ c.table = table
        /\ LET o == InventoryCollection_post(table, nextId, dbUp, JsonHeaders, data) IN
            /\ o.resp.error = "DataValidationError"
            /\ o.table = table
        /\ \A self \in all(table) :
            /\ LET u == update(deserialize(self, data).obj, table, nextId, dbUp) IN
                /\ u.error = "DataValidationError"
                /\ u.table = table
            /\ LET o == InventoryResource_put(table, nextId, dbUp,
                            ToString(self.id.int), JsonHeaders, data) IN
                /\ o.resp.error = "DataValidationError"
                /\ o.table = table
                /\ pending_put(table, ToString(self.id.int), JsonHeaders, data) = {}
    /\ \A self \in all(table) :
        /\ LET x == delete(self, table, nextId, dbUp) IN
            /\ x.error = "DataValidationError"
            /\ x.table = table
        /\ LET o == InventoryResource_delete(table, nextId, dbUp, ToString(self.id.int)) IN
            /\ o.resp.error = "DataValidationError"
            /\ o.table = table
        /\ \A quantity \in {"0", "1"} :
            LET o == RestockResource_put(table, nextId, dbUp, ToString(self.id.int),
                                         quantity) IN
            /\ self.quantity.int >= 0 => o.resp.error = "DataValidationError"
            /\ o.table = table

\* a delete failed at its commit, and the item it was to remove is stored
C25_Witness ==
    /\ ~dbUp
    /\ resp.req.op = "delete"
    /\ resp.error = "DataValidationError"
    /\ resp.message = "commit failed"
    /\ Stored(resp.req.id)

\* payloads, valid in everything else, whose name is the empty string or null
BadNamePayloads ==
    {JObj([Base.obj EXCEPT !.name = JStr("")]),
     JObj([Base.obj EXCEPT !.name = None])}

\* C26: the name of every stored item is non-empty text: a create or an
\* update whose payload name is the empty string or is no text is refused
\* and nothing of it is stored.
C26_NameNonEmptyText ==
    /\ \A r \in table : r.name # ""
    /\ \A data \in BadNamePayloads :
        /\ LET o == InventoryCollection_post(table, nextId, dbUp, JsonHeaders, data) IN
            /\ o.resp.status = HTTP_400_BAD_REQUEST
            /\ o.table = table
        /\ \A id \in PathIds : Stored(id) =>
            LET u == InventoryResource_put(table, nextId, dbUp, id, JsonHeaders, data) IN
            /\ u.resp.status = HTTP_400_BAD_REQUEST
            /\ u.table = table

\* C27: an update with a JSON content type of an id that is not stored
\* answers 404 whatever the payload is, a valid one, an invalid or empty
\* mapping, or no mapping at all (never 400: the lookup comes before the
\* validation), and the store is as it was.
C27_UpdateUnknownIs404 ==
    \A id \in PathIds :
        ~Stored(id) =>
        \A data \in Payloads \cup NonIntegerQuantityPayloads \cup NonMappings :
            LET u == InventoryResource_put(table, nextId, dbUp, id, JsonHeaders, data) IN
            /\ u.resp.status = HTTP_404_NOT_FOUND
            /\ u.resp.error = "NotFound"
            /\ u.table = table
            /\ u.nextId = nextId
            /\ pending_put(table, id, JsonHeaders, data) = {}

\* an update of an id that is not stored, beside an item that is, was
\* answered 404, and it is the answer to the empty mapping
C27_Witness ==
    /\ resp.req.op = "update"
    /\ resp.status = HTTP_404_NOT_FOUND
    /\ ~Stored(resp.req.id)
    /\ table # {}
    /\ InventoryResource_put(table, nextId, dbUp, resp.req.id, JsonHeaders,
                             EmptyPayload).resp = resp

\* C28: a restock answered 200 changes only the quantity of the item of the
\* path: its id, name, condition and stock_level are as before (the
\* stock_level is not derived from the new quantity, zero included), and no
\* other item is changed, added or removed.
C28_RestockChangesOnlyQuantity ==
    \A id \in PathIds : \A quantity \in Deltas :
        LET o == RestockResource_put(table, nextId, dbUp, id, quantity) IN
        o.resp.status = HTTP_200_OK =>
            /\ Stored(id)
            /\ \A row \in table : ToString(row.id) = id =>
                o.table = (table \ {row})
                    \cup {[row EXCEPT !.quantity = row.quantity + ParseInt(quantity).int]}
            /\ \A k \in {"id", "name", "condition", "stock_level"} :
                /\ find(o.table, id)[k] = find(table, id)[k]
                /\ o.resp.body.obj[k] = serialize(find(table, id)).obj[k]
            /\ o.nextId = nextId

\* a restock left the item at quantity zero with the stock level IN_STOCK it
\* had, and another stored item beside it
C28_Witness ==
    /\ resp.req.op = "restock"
    /\ resp.status = HTTP_200_OK
    /\ Stored(resp.req.id)
    /\ find(table, resp.req.id).quantity = JInt(0)
    /\ find(table, resp.req.id).stock_level = Member("StockLevel", "IN_STOCK")
    /\ resp.body.obj.stock_level = JStr("IN_STOCK")
    /\ Cardinality(table) = 2

\* the payloads create and update are compared on: valid ones, mappings with
\* a missing key or an invalid value, quantities that are no integer, names
\* that are empty or null, payloads that are no mapping
ComparedPayloads ==
    Payloads \cup NonIntegerQuantityPayloads \cup BadNamePayloads \cup NonMappings

\* the row of table t with the id that reads as text id
RowOf(t, id) == CHOOSE r \in t : ToString(r.id) = id

\* what create and update served now would do with the same payload
C29_SameValidation_Now ==
    \A data \in ComparedPayloads : \A id \in PathIds :
        Stored(id) =>
        LET c == InventoryCollection_post(table, nextId, dbUp, JsonHeaders, data)
            u == InventoryResource_put(table, nextId, dbUp, id, JsonHeaders, data) IN
        /\ c.resp.error \in {"", "DataValidationError"}
        /\ u.resp.error \in {"", "DataValidationError"}
        /\ (c.resp.error = "DataValidationError") <=> (u.resp.error = "DataValidationError")
        /\ c.resp.error = "DataValidationError" =>
            /\ c.table = table
            /\ u.table = table
        /\ c.resp.error = "" =>
            /\ c.resp.status = HTTP_201_CREATED
            /\ u.resp.status = HTTP_200_OK
            /\ \A k \in ItemKeys :
                /\ RowOf(c.table, ToString(nextId))[k] = RowOf(u.table, id)[k]
                /\ c.resp.body.obj[k] = u.resp.body.obj[k]

\* C29: create and update apply the same validation: for every payload, a
\* create with it is refused as invalid exactly when an update of a stored
\* item with it is refused as invalid (the store accepting commits), and when
\* they are accepted both store the same name, quantity, condition and
\* stock_level.
C29_SameValidation == []C29_SameValidation_Now

\* a create and an update with payloads of the same stock_level fault were
\* both refused: the update just answered, the create's answer is the same
C29_Witness ==
    /\ resp.req.op = "update"
    /\ resp.error = "DataValidationError"
    /\ resp.message = "Invalid value for StockLevel"
    /\ Stored(resp.req.id)
    /\ InventoryCollection_post(table, nextId, dbUp, JsonHeaders,
                                BadStockLevel).resp.message = resp.message

====
